---- MODULE Spec2Model ----
(***************************************************************************)
(* Model of the dashboard Zustand store                                    *)
(* (src/react/src/features/dashboard/stores/dashboardStore.ts).            *)
(*                                                                         *)
(* The store state is one object, as in Zustand; every set(partial) call   *)
(* is a shallow merge of the partial into it.  fetchDashboardData and      *)
(* refreshDashboard are async functions: the part before the await is one  *)
(* step, the continuation after the awaited load is another step (the      *)
(* success set, or the catch block when the load fails or that set         *)
(* throws), and any synchronous store operation may run in between.        *)
(* The selectors are operators on a state; a component reading one is a    *)
(* step that records the value read.  DashboardPage (src/unnamed/part_004) *)
(* is the view it returns for a state, its mount effect and its refresh    *)
(* handler.                                                                *)
(*                                                                         *)
(* Nullable values (T | null, optional fields) are sequences of length at  *)
(* most one: <<>> is null/undefined, <<x>> is the value x.                 *)
(* JavaScript numbers produced by a division are IEEE 754 doubles, kept   *)
(* as records [kind, neg, exp, bits]: sign, exponent and the 53 binary     *)
(* digits of the significand, or one of the specials NaN, Infinity,        *)
(* -Infinity.                                                              *)
(***************************************************************************)
EXTENDS Integers, Sequences, FiniteSets, TLC

\* ------------------------------------------------------------------
\* Bounds of the model
\* ------------------------------------------------------------------
\* Number of fetchDashboardData / refreshDashboard calls issued in a run.
MaxLoads == 3
\* Largest progress argument passed to updateQuestProgress.
MaxProgress == 6
\* Largest random XP bonus drawn by refreshDashboard that is explored.
MaxBonus == 1

\* ------------------------------------------------------------------
\* Nullable values
\* ------------------------------------------------------------------
None == <<>>
Some(x) == <<x>>

\* ------------------------------------------------------------------
\* JavaScript numbers
\* ------------------------------------------------------------------
Abs(n) == IF n < 0 THEN -n ELSE n

\* Number of binary digits of the significand of a Number (IEEE 754
\* binary64).
Precision == 53

Zeros(k) == [i \in 1..k |-> 0]

\* A finite Number is (-1)^neg * b1.b2...b53 * 2^exp with bits =
\* <<b1, ..., b53>> and b1 = 1; zero has all digits 0 and exp 0.
Double(neg, exp, bits) ==
  [kind |-> "num", neg |-> neg, exp |-> exp, bits |-> bits]

Zero(neg) == Double(neg, 0, Zeros(Precision))

IsZero(x) == x.bits[1] = 0

NaN == [kind |-> "NaN", neg |-> FALSE, exp |-> 0, bits |-> Zeros(Precision)]
PosInfinity ==
  [kind |-> "Infinity", neg |-> FALSE, exp |-> 0, bits |-> Zeros(Precision)]
NegInfinity ==
  [kind |-> "-Infinity", neg |-> TRUE, exp |-> 0, bits |-> Zeros(Precision)]

\* The binary digits of the integer n >= 0, most significant first.
RECURSIVE IntBits(_)
IntBits(n) == IF n = 0 THEN <<>> ELSE Append(IntBits(n \div 2), n % 2)

\* digits + 1 on binary digits; one digit longer when all digits are 1.
RECURSIVE Increment(_)
Increment(digits) ==
  IF digits = <<>> THEN <<1>>
  ELSE IF digits[Len(digits)] = 0 THEN [digits EXCEPT ![Len(digits)] = 1]
  ELSE Append(Increment(SubSeq(digits, 1, Len(digits) - 1)), 0)

\* Rounding to the nearest Number, ties to even: digits are the binary
\* digits of the exact value, the first one (a 1) of weight 2^exp; sticky
\* tells that the exact value has further non-zero digits.
RoundToDouble(neg, digits, exp, sticky) ==
  LET padded == IF Len(digits) < Precision
                THEN digits \o Zeros(Precision - Len(digits))
                ELSE digits
      kept == SubSeq(padded, 1, Precision)
      half == IF Len(padded) > Precision THEN padded[Precision + 1] ELSE 0
      rest == sticky \/ \E i \in (Precision + 2)..Len(padded) : padded[i] = 1
      up == half = 1 /\ (rest \/ kept[Precision] = 1)
      rounded == IF up THEN Increment(kept) ELSE kept
  IN IF Len(rounded) > Precision
     THEN Double(neg, exp + 1, SubSeq(rounded, 1, Precision))
     ELSE Double(neg, exp, rounded)

\* The Number of the integer n.
Num(n) ==
  IF n = 0 THEN Zero(FALSE)
  ELSE RoundToDouble(n < 0, IntBits(Abs(n)), Len(IntBits(Abs(n))) - 1, FALSE)

\* p / q = (p' / q') * 2^exp with 1 <= p' / q' < 2, for p, q > 0.
RECURSIVE Normalised(_, _, _)
Normalised(p, q, exp) ==
  IF p < q THEN Normalised(2 * p, q, exp - 1)
  ELSE IF p >= 2 * q THEN Normalised(p, 2 * q, exp + 1)
  ELSE [p |-> p, q |-> q, exp |-> exp]

\* Long division: digits followed by the next k binary digits of r / q
\* (0 <= r < q), and the remainder left after them.
RECURSIVE DivBits(_, _, _, _)
DivBits(r, q, k, digits) ==
  IF k = 0 THEN [bits |-> digits, rem |-> r]
  ELSE IF 2 * r >= q THEN DivBits(2 * r - q, q, k - 1, Append(digits, 1))
  ELSE DivBits(2 * r, q, k - 1, Append(digits, 0))

\* a / b on Numbers, for integers a and b other than 0: the quotient
\* rounded to the nearest Number.
Divide(a, b) ==
  LET n == Normalised(Abs(a), Abs(b), 0)
      d == DivBits(n.p - n.q, n.q, Precision, <<1>>)
  IN RoundToDouble((a < 0) # (b < 0), d.bits, n.exp, d.rem # 0)

\* The binary digits of bits * k, most significant first: low holds the
\* digits already produced from bits[i+1..], carry what they carry over.
RECURSIVE MulDigits(_, _, _, _, _)
MulDigits(bits, k, i, carry, low) ==
  IF i = 0 THEN IntBits(carry) \o low
  ELSE MulDigits(bits, k, i - 1, (bits[i] * k + carry) \div 2,
                 << (bits[i] * k + carry) % 2 >> \o low)

\* x * k for a finite Number x and an integer k > 0: the product rounded
\* to the nearest Number.
Times(x, k) ==
  IF IsZero(x) THEN x
  ELSE LET digits == MulDigits(x.bits, k, Precision, 0, <<>>)
       IN RoundToDouble(x.neg, digits, x.exp + Len(digits) - Precision, FALSE)

\* (a / b) * 100 on Numbers, a and b integers: the quotient is rounded to a
\* Number first, the product a second time.
DivTimes100(a, b) ==
  IF b = 0
  THEN IF a = 0 THEN NaN ELSE IF a > 0 THEN PosInfinity ELSE NegInfinity
  ELSE IF a = 0 THEN Zero(b < 0)
  ELSE Times(Divide(a, b), 100)

\* |x| < |y| on two finite Numbers.
MagnitudeLess(x, y) ==
  IF IsZero(y) THEN FALSE
  ELSE IF IsZero(x) THEN TRUE
  ELSE IF x.exp # y.exp THEN x.exp < y.exp
  ELSE \E i \in 1..Precision :
         /\ x.bits[i] < y.bits[i]
         /\ \A j \in 1..(i - 1) : x.bits[j] = y.bits[j]

\* x < y on two finite Numbers (-0 is not less than 0).
NumLess(x, y) ==
  IF x.neg /\ ~y.neg THEN ~(IsZero(x) /\ IsZero(y))
  ELSE IF ~x.neg /\ y.neg THEN FALSE
  ELSE IF x.neg THEN MagnitudeLess(y, x)
  ELSE MagnitudeLess(x, y)

\* Math.min(x, y): NaN if either is NaN, otherwise the smaller one (-0 is
\* smaller than 0).
MathMin(x, y) ==
  IF x.kind = "NaN" \/ y.kind = "NaN" THEN NaN
  ELSE IF x.kind = "-Infinity" \/ y.kind = "-Infinity" THEN NegInfinity
  ELSE IF x.kind = "Infinity" THEN y
  ELSE IF y.kind = "Infinity" THEN x
  ELSE IF IsZero(x) /\ IsZero(y) THEN Zero(x.neg \/ y.neg)
  ELSE IF NumLess(y, x) THEN y ELSE x

\* Math.max(x, y), same conventions.
MathMax(x, y) ==
  IF x.kind = "NaN" \/ y.kind = "NaN" THEN NaN
  ELSE IF x.kind = "Infinity" \/ y.kind = "Infinity" THEN PosInfinity
  ELSE IF x.kind = "-Infinity" THEN y
  ELSE IF y.kind = "-Infinity" THEN x
  ELSE IF IsZero(x) /\ IsZero(y) THEN Zero(x.neg /\ y.neg)
  ELSE IF NumLess(x, y) THEN y ELSE x

\* ------------------------------------------------------------------
\* Mock data (the data source of the store)
\* ------------------------------------------------------------------
mockUserStats == [currentXP |-> 2450]

mockUser == [id |-> "user_001", stats |-> mockUserStats]

Quest(id, type, status, current, target, percentage, expiring) ==
  [id |-> id, type |-> type, status |-> status,
   progress |-> [current |-> current, target |-> target,
                 percentage |-> percentage],
   isExpiringSoon |-> expiring]

mockActiveQuests ==
  << Quest("quest_001", "weekly", "in_progress", 4, 5, Num(80), Some(FALSE)),
     Quest("quest_002", "main", "in_progress", 7, 10, Num(70), None),
     Quest("quest_003", "side", "in_progress", 2, 3, Num(66), None),
     Quest("quest_004", "daily", "in_progress", 0, 1, Num(0), Some(TRUE)),
     Quest("quest_005", "event", "in_progress", 1, 5, Num(20), None) >>

mockActivities ==
  << "activity_001", "activity_002", "activity_003", "activity_004",
     "activity_005" >>

mockUpcomingClasses == << "class_001", "class_002", "class_003", "class_004" >>

LeaderboardEntry(rank, userId, isCurrentUser) ==
  [rank |-> rank, userId |-> userId, isCurrentUser |-> isCurrentUser]

mockLeaderboard ==
  << LeaderboardEntry(1, "user_top1", None),
     LeaderboardEntry(2, "user_top2", None),
     LeaderboardEntry(3, "user_top3", None),
     LeaderboardEntry(127, "user_001", Some(TRUE)) >>

mockFeaturedBadges == << "badge_001", "badge_002", "badge_003", "badge_004" >>

mockWeeklyStats == [xpEarned |-> 2450, questsCompleted |-> 12]

QuestStatus ==
  {"locked", "available", "in_progress", "completed", "claimed", "expired"}

\* ------------------------------------------------------------------
\* State
\* ------------------------------------------------------------------
VARIABLES
  state,     \* the store's state object
  pending,   \* async calls suspended at their await: [kind, seq]
  issued,    \* number of fetchDashboardData/refreshDashboard calls so far
  lastCall,  \* the store operation (or continuation) that ran last
  storage,   \* the parsed value of the 'dashboard-storage' item, if any
  rejected   \* the numbers of the loads whose promise rejected

vars == << state, pending, issued, lastCall, storage, rejected >>

initialState ==
  [user |-> None,
   activeQuests |-> <<>>,
   activities |-> <<>>,
   upcomingClasses |-> <<>>,
   leaderboard |-> <<>>,
   featuredBadges |-> <<>>,
   weeklyStats |-> None,
   isLoading |-> FALSE,
   isRefreshing |-> FALSE,
   error |-> None,
   filters |-> [questType |-> None, timeRange |-> None],
   showCompletedQuests |-> FALSE,
   activityLimit |-> 5,
   pendingXPGain |-> 0,
   pendingCoinsGain |-> 0]

\* set(partial): shallow merge of partial into the current state.
Merge(s, partial) ==
  [k \in DOMAIN s |-> IF k \in DOMAIN partial THEN partial[k] ELSE s[k]]

\* op: the operation; seq: the number of the load it belongs to (0 if none);
\* arg: the quest id, the thrown value or the amount it was given.
Call(op, seq, arg) == [op |-> op, seq |-> seq, arg |-> arg]

\* ------------------------------------------------------------------
\* Persistence (persist middleware, item 'dashboard-storage')
\* ------------------------------------------------------------------
\* A variant that persists the user as well.
partializeWithUser(s) ==
  [showCompletedQuests |-> s.showCompletedQuests,
   activityLimit |-> s.activityLimit,
   filters |-> s.filters,
   user |-> s.user]

partialize(s) ==
  [showCompletedQuests |-> s.showCompletedQuests,
   activityLimit |-> s.activityLimit,
   filters |-> s.filters]

FilterKeys == { "questType", "timeRange" }

\* A variant that writes no filter at all.
SerializeWithoutFilters(prefs) ==
  [prefs EXCEPT !.filters = [k \in {} |-> ""]]

\* JSON.stringify followed by JSON.parse of a partialized state: a filter
\* key without a value is not written.
Serialize(prefs) ==
  [prefs EXCEPT !.filters =
     [k \in { key \in FilterKeys : prefs.filters[key] # None } |->
        prefs.filters[k][1]]]

\* The persisted object as the state fields it is merged into.
Deserialize(item) ==
  [item EXCEPT !.filters =
     [k \in FilterKeys |->
        IF k \in DOMAIN item.filters THEN Some(item.filters[k]) ELSE None]]

\* Written by persist after every set: the item holds the partialized new
\* state.  Nothing is written when the store is constructed or rehydrated.
setItem(s) == Some(Serialize(partialize(s)))

\* Rehydration at construction: { ...initialState, ...persisted }.
Rehydrate(item) ==
  IF item = None THEN initialState
  ELSE Merge(initialState, Deserialize(item[1]))

\* First construction, over an empty persistence store: there is no item
\* until the first set.
Init ==
  /\ state = Rehydrate(None)
  /\ pending = {}
  /\ issued = 0
  /\ lastCall = Call("create", 0, 0)
  /\ storage = None
  /\ rejected = {}

\* A later construction (page reload) over the same persistence store; the
\* loads of the previous page are gone with it.
createStore ==
  /\ state' = Rehydrate(storage)
  /\ pending' = {}
  /\ lastCall' = Call("create", 0, 0)
  /\ UNCHANGED << issued, storage, rejected >>

\* ------------------------------------------------------------------
\* Setters
\* ------------------------------------------------------------------
setUser(user) ==
  /\ state' = Merge(state, [user |-> user])
  /\ storage' = setItem(state')
  /\ lastCall' = Call("setUser", 0, 0)
  /\ UNCHANGED << pending, issued, rejected >>

setActiveQuests(activeQuests) ==
  /\ state' = Merge(state, [activeQuests |-> activeQuests])
  /\ storage' = setItem(state')
  /\ lastCall' = Call("setActiveQuests", 0, 0)
  /\ UNCHANGED << pending, issued, rejected >>

setActivities(activities) ==
  /\ state' = Merge(state, [activities |-> activities])
  /\ storage' = setItem(state')
  /\ lastCall' = Call("setActivities", 0, 0)
  /\ UNCHANGED << pending, issued, rejected >>

setUpcomingClasses(upcomingClasses) ==
  /\ state' = Merge(state, [upcomingClasses |-> upcomingClasses])
  /\ storage' = setItem(state')
  /\ lastCall' = Call("setUpcomingClasses", 0, 0)
  /\ UNCHANGED << pending, issued, rejected >>

setLeaderboard(leaderboard) ==
  /\ state' = Merge(state, [leaderboard |-> leaderboard])
  /\ storage' = setItem(state')
  /\ lastCall' = Call("setLeaderboard", 0, 0)
  /\ UNCHANGED << pending, issued, rejected >>

setFeaturedBadges(featuredBadges) ==
  /\ state' = Merge(state, [featuredBadges |-> featuredBadges])
  /\ storage' = setItem(state')
  /\ lastCall' = Call("setFeaturedBadges", 0, 0)
  /\ UNCHANGED << pending, issued, rejected >>

setWeeklyStats(weeklyStats) ==
  /\ state' = Merge(state, [weeklyStats |-> weeklyStats])
  /\ storage' = setItem(state')
  /\ lastCall' = Call("setWeeklyStats", 0, 0)
  /\ UNCHANGED << pending, issued, rejected >>

setLoading(isLoading) ==
  /\ state' = Merge(state, [isLoading |-> isLoading])
  /\ storage' = setItem(state')
  /\ lastCall' = Call("setLoading", 0, 0)
  /\ UNCHANGED << pending, issued, rejected >>

setRefreshing(isRefreshing) ==
  /\ state' = Merge(state, [isRefreshing |-> isRefreshing])
  /\ storage' = setItem(state')
  /\ lastCall' = Call("setRefreshing", 0, 0)
  /\ UNCHANGED << pending, issued, rejected >>

setError(error) ==
  /\ state' = Merge(state, [error |-> error])
  /\ storage' = setItem(state')
  /\ lastCall' = Call("setError", 0, 0)
  /\ UNCHANGED << pending, issued, rejected >>

\* ------------------------------------------------------------------
\* Filters and preferences
\* ------------------------------------------------------------------
\* A variant that replaces the filters by the new ones.
setFiltersReplacing(newFilters) ==
  /\ state' = Merge(state, [filters |-> Merge(initialState.filters, newFilters)])
  /\ storage' = setItem(state')
  /\ lastCall' = Call("setFilters", 0, newFilters)
  /\ UNCHANGED << pending, issued, rejected >>

\* { ...state.filters, ...newFilters }: newFilters is a partial record.
setFilters(newFilters) ==
  /\ state' = Merge(state, [filters |-> Merge(state.filters, newFilters)])
  /\ storage' = setItem(state')
  /\ lastCall' = Call("setFilters", 0, newFilters)
  /\ UNCHANGED << pending, issued, rejected >>

\* A variant whose change does not reach the persistence store.
toggleShowCompletedQuestsUnsaved ==
  /\ state' = Merge(state, [showCompletedQuests |-> ~state.showCompletedQuests])
  /\ lastCall' = Call("toggleShowCompletedQuests", 0, 0)
  /\ UNCHANGED << pending, issued, storage, rejected >>

toggleShowCompletedQuests ==
  /\ state' = Merge(state, [showCompletedQuests |-> ~state.showCompletedQuests])
  /\ storage' = setItem(state')
  /\ lastCall' = Call("toggleShowCompletedQuests", 0, 0)
  /\ UNCHANGED << pending, issued, rejected >>

setActivityLimit(activityLimit) ==
  /\ state' = Merge(state, [activityLimit |-> activityLimit])
  /\ storage' = setItem(state')
  /\ lastCall' = Call("setActivityLimit", 0, activityLimit)
  /\ UNCHANGED << pending, issued, rejected >>

\* ------------------------------------------------------------------
\* Asynchronous loads
\* ------------------------------------------------------------------
FetchDelay == 800
RefreshDelay == 500
XPBonusRange == 50

Delay(kind) == IF kind = "fetch" THEN FetchDelay ELSE RefreshDelay

\* Timer order: a timer set earlier with a delay not longer than another
\* one's fires before it.  A fetch (800 ms) issued before a refresh (500 ms)
\* may fire before or after it.
Precedes(q, p) == q.seq < p.seq /\ Delay(q.kind) <= Delay(p.kind)

CanResolve(p) == p \in pending /\ ~ \E q \in pending : Precedes(q, p)

\* The try block of a load holds the awaited promise, which stands for the
\* API calls, and the success set.  The catch block is reached
\*  - when the load fails: the awaited promise rejects (with the timer of
\*    the source, when setTimeout throws or hands the promise a rejected
\*    one), and nothing has been written since the call;
\*  - when the success set throws: set merges the partial into the state
\*    before it notifies the subscribers and before persist writes the
\*    item, so what a subscriber or the storage write throws is thrown
\*    after the merge and before the write.
\* The catch block's own set merges and may throw in the same way; what it
\* throws leaves the async function, whose promise then rejects.  So does
\* what the two sets before the try block throw.
\* thrown is the value caught: an Error with a message, or any other value.
ErrorMessage(thrown, fallback) ==
  IF thrown.isError THEN thrown.message ELSE fallback

\* A variant that forgets the weekly statistics.
FetchSuccessPatchPartial ==
  [user |-> Some(mockUser),
   activeQuests |-> mockActiveQuests,
   activities |-> mockActivities,
   upcomingClasses |-> mockUpcomingClasses,
   leaderboard |-> mockLeaderboard,
   featuredBadges |-> mockFeaturedBadges,
   isLoading |-> FALSE]

FetchSuccessPatch ==
  [user |-> Some(mockUser),
   activeQuests |-> mockActiveQuests,
   activities |-> mockActivities,
   upcomingClasses |-> mockUpcomingClasses,
   leaderboard |-> mockLeaderboard,
   featuredBadges |-> mockFeaturedBadges,
   weeklyStats |-> Some(mockWeeklyStats),
   isLoading |-> FALSE]

\* A variant that drops the loaded user on failure.
FetchErrorPatchClearing(thrown) ==
  [error |-> Some(ErrorMessage(thrown, "Failed to fetch dashboard data")),
   isLoading |-> FALSE,
   user |-> None]

FetchErrorPatch(thrown) ==
  [error |-> Some(ErrorMessage(thrown, "Failed to fetch dashboard data")),
   isLoading |-> FALSE]

\* A variant that reloads the leaderboard as well.
RefreshSuccessPatchWide(bonus) ==
  [user |-> Some([mockUser EXCEPT !.stats.currentXP = @ + bonus]),
   activeQuests |-> mockActiveQuests,
   activities |-> mockActivities,
   upcomingClasses |-> mockUpcomingClasses,
   leaderboard |-> mockLeaderboard,
   isRefreshing |-> FALSE]

\* bonus is Math.floor(Math.random() * 50).
RefreshSuccessPatch(bonus) ==
  [user |-> Some([mockUser EXCEPT !.stats.currentXP = @ + bonus]),
   activeQuests |-> mockActiveQuests,
   activities |-> mockActivities,
   upcomingClasses |-> mockUpcomingClasses,
   isRefreshing |-> FALSE]

\* A variant that empties the quest list on failure.
RefreshErrorPatchClearing(thrown) ==
  [error |-> Some(ErrorMessage(thrown, "Failed to refresh dashboard")),
   isRefreshing |-> FALSE,
   activeQuests |-> <<>>]

RefreshErrorPatch(thrown) ==
  [error |-> Some(ErrorMessage(thrown, "Failed to refresh dashboard")),
   isRefreshing |-> FALSE]

\* fetchDashboardData up to its await: setLoading(true); setError(null).
fetchDashboardData ==
  /\ issued < MaxLoads
  /\ state' = Merge(Merge(state, [isLoading |-> TRUE]), [error |-> None])
  /\ issued' = issued + 1
  /\ pending' = pending \cup {[kind |-> "fetch", seq |-> issued + 1]}
  /\ storage' = setItem(state')
  /\ lastCall' = Call("fetchDashboardData", issued + 1, 0)
  /\ UNCHANGED rejected

\* fetchDashboardData when one of its two sets before the try block throws
\* after its merge (merged = 1: setLoading(true), merged = 2:
\* setError(null)): no timer is set and the promise of the call rejects.
\* The item is written by the sets that completed.
fetchDashboardDataThrows(merged, thrown) ==
  /\ issued < MaxLoads
  /\ state' = IF merged = 1 THEN Merge(state, [isLoading |-> TRUE])
              ELSE Merge(Merge(state, [isLoading |-> TRUE]), [error |-> None])
  /\ issued' = issued + 1
  /\ rejected' = rejected \cup {issued + 1}
  /\ storage' = IF merged = 1 THEN storage ELSE setItem(state')
  /\ lastCall' = Call("fetchDashboardData/throws", issued + 1, thrown)
  /\ UNCHANGED pending

\* A variant whose success set leaves isLoading on.
fetchDashboardDataSuccessLoading(p) ==
  /\ p.kind = "fetch"
  /\ CanResolve(p)
  /\ state' = Merge(state, [FetchSuccessPatch EXCEPT !.isLoading = TRUE])
  /\ pending' = pending \ {p}
  /\ storage' = setItem(state')
  /\ lastCall' = Call("fetchDashboardData/success", p.seq, 0)
  /\ UNCHANGED << issued, rejected >>

\* The continuation of call p after the timer fired.
fetchDashboardDataSuccess(p) ==
  /\ p.kind = "fetch"
  /\ CanResolve(p)
  /\ state' = Merge(state, FetchSuccessPatch)
  /\ pending' = pending \ {p}
  /\ storage' = setItem(state')
  /\ lastCall' = Call("fetchDashboardData/success", p.seq, 0)
  /\ UNCHANGED << issued, rejected >>

\* A variant whose catch block throws the error on after its set.
fetchDashboardDataErrorRethrown(p, thrown) ==
  /\ p.kind = "fetch"
  /\ p \in pending
  /\ state' = Merge(state, FetchErrorPatch(thrown))
  /\ pending' = pending \ {p}
  /\ storage' = setItem(state')
  /\ lastCall' = Call("fetchDashboardData/error", p.seq, thrown)
  /\ rejected' = rejected \cup {p.seq}
  /\ UNCHANGED issued

\* The load of call p fails: the awaited promise rejects with thrown and
\* the catch block runs; the async function returns.  A load may fail at
\* any time after the call, before the timers of earlier calls fire too.
fetchDashboardDataError(p, thrown) ==
  /\ p.kind = "fetch"
  /\ p \in pending
  /\ state' = Merge(state, FetchErrorPatch(thrown))
  /\ pending' = pending \ {p}
  /\ storage' = setItem(state')
  /\ lastCall' = Call("fetchDashboardData/error", p.seq, thrown)
  /\ UNCHANGED << issued, rejected >>

\* The timer of call p fired and the success set throws after its merge:
\* the catch block runs and its set completes, writing the item.
fetchDashboardDataSuccessCaught(p, thrown) ==
  /\ p.kind = "fetch"
  /\ CanResolve(p)
  /\ state' = Merge(Merge(state, FetchSuccessPatch), FetchErrorPatch(thrown))
  /\ pending' = pending \ {p}
  /\ storage' = setItem(state')
  /\ lastCall' = Call("fetchDashboardData/success/error", p.seq, thrown)
  /\ UNCHANGED << issued, rejected >>

\* The catch block's set throws as well, after its merge and before the
\* item is written: the promise of call p rejects.  loaded tells how the
\* catch block was reached: from the success set (TRUE) or from the await.
fetchDashboardDataRejected(p, loaded, thrown) ==
  /\ p.kind = "fetch"
  /\ IF loaded THEN CanResolve(p) ELSE p \in pending
  /\ state' = Merge(IF loaded THEN Merge(state, FetchSuccessPatch) ELSE state,
                    FetchErrorPatch(thrown))
  /\ pending' = pending \ {p}
  /\ rejected' = rejected \cup {p.seq}
  /\ lastCall' = Call("fetchDashboardData/rejected", p.seq, thrown)
  /\ UNCHANGED << issued, storage >>

\* refreshDashboard up to its await: setRefreshing(true); setError(null).
\* origin is the view whose button made the call, 0 for any other caller.
refreshDashboardFrom(origin) ==
  /\ issued < MaxLoads
  /\ state' = Merge(Merge(state, [isRefreshing |-> TRUE]), [error |-> None])
  /\ issued' = issued + 1
  /\ pending' = pending \cup {[kind |-> "refresh", seq |-> issued + 1]}
  /\ storage' = setItem(state')
  /\ lastCall' = Call("refreshDashboard", issued + 1, origin)
  /\ UNCHANGED rejected

refreshDashboard == refreshDashboardFrom(0)

\* refreshDashboard when one of its two sets before the try block throws
\* after its merge (merged = 1: setRefreshing(true), merged = 2:
\* setError(null)): no timer is set and the promise of the call rejects.
refreshDashboardThrows(merged, thrown) ==
  /\ issued < MaxLoads
  /\ state' = IF merged = 1 THEN Merge(state, [isRefreshing |-> TRUE])
              ELSE Merge(Merge(state, [isRefreshing |-> TRUE]), [error |-> None])
  /\ issued' = issued + 1
  /\ rejected' = rejected \cup {issued + 1}
  /\ storage' = IF merged = 1 THEN storage ELSE setItem(state')
  /\ lastCall' = Call("refreshDashboard/throws", issued + 1, thrown)
  /\ UNCHANGED pending

\* A variant that drains the pending rewards when the refresh lands.
refreshDashboardSuccessClearing(p, bonus) ==
  /\ p.kind = "refresh"
  /\ CanResolve(p)
  /\ state' = Merge(Merge(state, RefreshSuccessPatch(bonus)),
                    [pendingXPGain |-> 0, pendingCoinsGain |-> 0])
  /\ pending' = pending \ {p}
  /\ storage' = setItem(state')
  /\ lastCall' = Call("refreshDashboard/success", p.seq, bonus)
  /\ UNCHANGED << issued, rejected >>

refreshDashboardSuccess(p, bonus) ==
  /\ p.kind = "refresh"
  /\ CanResolve(p)
  /\ state' = Merge(state, RefreshSuccessPatch(bonus))
  /\ pending' = pending \ {p}
  /\ storage' = setItem(state')
  /\ lastCall' = Call("refreshDashboard/success", p.seq, bonus)
  /\ UNCHANGED << issued, rejected >>

\* The load of call p fails: the awaited promise rejects with thrown and
\* the catch block runs; the async function returns.
refreshDashboardError(p, thrown) ==
  /\ p.kind = "refresh"
  /\ p \in pending
  /\ state' = Merge(state, RefreshErrorPatch(thrown))
  /\ pending' = pending \ {p}
  /\ storage' = setItem(state')
  /\ lastCall' = Call("refreshDashboard/error", p.seq, thrown)
  /\ UNCHANGED << issued, rejected >>

\* The timer of call p fired and the success set throws after its merge:
\* the catch block runs and its set completes, writing the item.
refreshDashboardSuccessCaught(p, bonus, thrown) ==
  /\ p.kind = "refresh"
  /\ CanResolve(p)
  /\ state' = Merge(Merge(state, RefreshSuccessPatch(bonus)),
                    RefreshErrorPatch(thrown))
  /\ pending' = pending \ {p}
  /\ storage' = setItem(state')
  /\ lastCall' = Call("refreshDashboard/success/error", p.seq, thrown)
  /\ UNCHANGED << issued, rejected >>

\* The catch block's set throws as well: the promise of call p rejects.
refreshDashboardRejected(p, loaded, bonus, thrown) ==
  /\ p.kind = "refresh"
  /\ IF loaded THEN CanResolve(p) ELSE p \in pending
  /\ state' = Merge(IF loaded THEN Merge(state, RefreshSuccessPatch(bonus))
                    ELSE state,
                    RefreshErrorPatch(thrown))
  /\ pending' = pending \ {p}
  /\ rejected' = rejected \cup {p.seq}
  /\ lastCall' = Call("refreshDashboard/rejected", p.seq, thrown)
  /\ UNCHANGED << issued, storage >>

\* ------------------------------------------------------------------
\* Quest operations
\* ------------------------------------------------------------------
\* A variant that derives the status from the new progress alone.
QuestUpdateReverting(quest, progress) ==
  [quest EXCEPT
     !.progress.current = progress,
     !.progress.percentage =
        MathMin(DivTimes100(progress, quest.progress.target), Num(100)),
     !.status = IF progress >= quest.progress.target
                THEN "completed" ELSE "in_progress"]

\* The object built for the quest whose id matches.
QuestUpdate(quest, progress) ==
  [quest EXCEPT
     !.progress.current = progress,
     !.progress.percentage =
        MathMin(DivTimes100(progress, quest.progress.target), Num(100)),
     !.status = IF progress >= quest.progress.target
                THEN "completed" ELSE quest.status]

\* A variant that forgets the id test.
MapQuestsAll(quests, questId, progress) ==
  [i \in 1..Len(quests) |-> QuestUpdate(quests[i], progress)]

MapQuests(quests, questId, progress) ==
  [i \in 1..Len(quests) |->
     IF quests[i].id = questId THEN QuestUpdate(quests[i], progress)
     ELSE quests[i]]

updateQuestProgress(questId, progress) ==
  /\ state' = Merge(state,
       [activeQuests |-> MapQuests(state.activeQuests, questId, progress)])
  /\ storage' = setItem(state')
  /\ lastCall' = Call("updateQuestProgress", 0, questId)
  /\ UNCHANGED << pending, issued, rejected >>

\* ------------------------------------------------------------------
\* Activity operations
\* ------------------------------------------------------------------
ActivityCap == 20

\* xs.slice(0, n) for n >= 0.
Slice0(xs, n) == SubSeq(xs, 1, IF n < Len(xs) THEN n ELSE Len(xs))

\* xs.slice(-n) for n >= 0.
SliceLast(xs, n) ==
  SubSeq(xs, IF n < Len(xs) THEN Len(xs) - n + 1 ELSE 1, Len(xs))

\* A variant that keeps the last 20 entries instead of the first 20.
addActivityKeepOldest(activity) ==
  /\ state' = Merge(state,
       [activities |-> SliceLast(<<activity>> \o state.activities, ActivityCap)])
  /\ storage' = setItem(state')
  /\ lastCall' = Call("addActivity", 0, activity)
  /\ UNCHANGED << pending, issued, rejected >>

addActivity(activity) ==
  /\ state' = Merge(state,
       [activities |-> Slice0(<<activity>> \o state.activities, ActivityCap)])
  /\ storage' = setItem(state')
  /\ lastCall' = Call("addActivity", 0, activity)
  /\ UNCHANGED << pending, issued, rejected >>

\* ------------------------------------------------------------------
\* Pending rewards
\* ------------------------------------------------------------------
\* A variant that caps the counter at 1.
addPendingXPCapped(amount) ==
  /\ state' = Merge(state,
       [pendingXPGain |-> IF state.pendingXPGain + amount > 1 THEN 1
                          ELSE state.pendingXPGain + amount])
  /\ storage' = setItem(state')
  /\ lastCall' = Call("addPendingXP", 0, amount)
  /\ UNCHANGED << pending, issued, rejected >>

addPendingXP(amount) ==
  /\ state' = Merge(state, [pendingXPGain |-> state.pendingXPGain + amount])
  /\ storage' = setItem(state')
  /\ lastCall' = Call("addPendingXP", 0, amount)
  /\ UNCHANGED << pending, issued, rejected >>

\* A variant that subtracts the amount.
addPendingCoinsNegated(amount) ==
  /\ state' = Merge(state, [pendingCoinsGain |-> state.pendingCoinsGain - amount])
  /\ storage' = setItem(state')
  /\ lastCall' = Call("addPendingCoins", 0, amount)
  /\ UNCHANGED << pending, issued, rejected >>

addPendingCoins(amount) ==
  /\ state' = Merge(state, [pendingCoinsGain |-> state.pendingCoinsGain + amount])
  /\ storage' = setItem(state')
  /\ lastCall' = Call("addPendingCoins", 0, amount)
  /\ UNCHANGED << pending, issued, rejected >>

clearPendingRewards ==
  /\ state' = Merge(state, [pendingXPGain |-> 0, pendingCoinsGain |-> 0])
  /\ storage' = setItem(state')
  /\ lastCall' = Call("clearPendingRewards", 0, 0)
  /\ UNCHANGED << pending, issued, rejected >>

\* ------------------------------------------------------------------
\* Reset
\* ------------------------------------------------------------------
\* A variant that resets the data and keeps the preferences.
resetStoreDataOnly ==
  /\ state' = Merge(state,
       [k \in DOMAIN initialState \ {"filters", "showCompletedQuests", "activityLimit"}
          |-> initialState[k]])
  /\ storage' = setItem(state')
  /\ lastCall' = Call("resetStore", 0, 0)
  /\ UNCHANGED << pending, issued, rejected >>

resetStore ==
  /\ state' = Merge(state, initialState)
  /\ storage' = setItem(state')
  /\ lastCall' = Call("resetStore", 0, 0)
  /\ UNCHANGED << pending, issued, rejected >>

\* ------------------------------------------------------------------
\* Selectors
\* ------------------------------------------------------------------
\* xs.slice(start, end) for integers start and end: a negative index counts
\* from the end of the array, and both are clamped to 0..xs.length.
Slice(xs, start, end) ==
  LET len == Len(xs)
      from == IF start < 0
              THEN (IF len + start > 0 THEN len + start ELSE 0)
              ELSE (IF start < len THEN start ELSE len)
      to == IF end < 0
            THEN (IF len + end > 0 THEN len + end ELSE 0)
            ELSE (IF end < len THEN end ELSE len)
  IN SubSeq(xs, from + 1, to)

\* A variant that returns every quest.
selectInProgressQuestsAll(s) == s.activeQuests

selectInProgressQuests(s) ==
  LET Test(quest) == quest.status = "in_progress"
  IN SelectSeq(s.activeQuests, Test)

selectDailyQuests(s) ==
  LET Test(quest) == quest.type = "daily"
  IN SelectSeq(s.activeQuests, Test)

\* isExpiringSoon is an optional boolean: absent and false are both falsy.
selectExpiringQuests(s) ==
  LET Test(quest) == quest.isExpiringSoon = Some(TRUE)
  IN SelectSeq(s.activeQuests, Test)

selectLimitedActivities(s) == Slice(s.activities, 0, s.activityLimit)

\* find: the first entry flagged isCurrentUser, undefined if there is none.
selectCurrentUserRank(s) ==
  LET Test(entry) == entry.isCurrentUser = Some(TRUE)
      found == SelectSeq(s.leaderboard, Test)
  IN IF found = <<>> THEN None ELSE Some(found[1])

SelectorNames ==
  { "selectInProgressQuests", "selectDailyQuests", "selectExpiringQuests",
    "selectLimitedActivities", "selectCurrentUserRank" }

Selected(selector, s) ==
  CASE selector = "selectInProgressQuests" -> selectInProgressQuests(s)
    [] selector = "selectDailyQuests" -> selectDailyQuests(s)
    [] selector = "selectExpiringQuests" -> selectExpiringQuests(s)
    [] selector = "selectLimitedActivities" -> selectLimitedActivities(s)
    [] selector = "selectCurrentUserRank" -> selectCurrentUserRank(s)

\* A component reads the store through a selector; the value it gets is
\* kept in lastCall.arg.  filter, slice and find build a new array (or
\* return an entry) and write nothing.
useSelector(selector) ==
  /\ lastCall' = Call(selector, 0, Selected(selector, state))
  /\ UNCHANGED << state, pending, issued, storage, rejected >>

\* ------------------------------------------------------------------
\* DashboardPage
\* ------------------------------------------------------------------
\* Truthiness of a string | null: null and the empty string are falsy.
Truthy(value) == value # None /\ value[1] # ""

\* A variant that shows the error screen whenever there is an error.
DashboardPageErrorFirst(s) ==
  IF Truthy(s.error) THEN "error"
  ELSE IF s.isLoading /\ s.user = None THEN "skeleton"
  ELSE "dashboard"

\* What the component returns for a store state: the error screen, the
\* loading skeleton or the dashboard.
DashboardPage(s) ==
  IF Truthy(s.error) /\ s.user = None THEN "error"
  ELSE IF s.isLoading /\ s.user = None THEN "skeleton"
  ELSE "dashboard"

\* useEffect(() => { fetchDashboardData() }, [fetchDashboardData]): runs
\* when the page is mounted.
mountDashboardPage == fetchDashboardData

\* handleRefresh is wired to the 'Try Again' button of the error screen and
\* to the refresh button of the dashboard, which is disabled while
\* isRefreshing; the skeleton has no button.
handleRefresh ==
  /\ issued > 0
  /\ \/ DashboardPage(state) = "error"
     \/ DashboardPage(state) = "dashboard" /\ ~state.isRefreshing
  /\ refreshDashboardFrom(DashboardPage(state))

\* ------------------------------------------------------------------
\* Inputs
\* ------------------------------------------------------------------
\* Number of loads issued in the runs that exercise quest updates.
MaxQuestLoads == 1
\* Largest pending reward counter explored.
MaxPending == 2

ThrownArgs ==
  { [isError |-> TRUE, message |-> "Network error"],
    [isError |-> FALSE, message |-> "timeout"] }

BonusArgs == 0..(IF MaxBonus < XPBonusRange THEN MaxBonus ELSE XPBonusRange - 1)

ProgressArgs == (-1)..MaxProgress

\* Quest lists handed to setActiveQuests: a quest with target 0, and quests
\* in each status the mock data does not contain.
QuestListArgs ==
  { << Quest("quest_101", "daily", "available", 0, 0, Num(0), None) >>,
    << Quest("quest_201", "side", "claimed", 5, 5, Num(100), None),
       Quest("quest_202", "main", "locked", 0, 2, Num(0), None) >>,
    << Quest("quest_203", "daily", "expired", 1, 4, Num(25), Some(TRUE)),
       Quest("quest_204", "weekly", "available", 0, 3, Num(0), None) >> }

QuestIdArgs ==
  { "quest_001", "quest_101", "quest_201", "quest_202", "quest_203",
    "quest_204", "quest_999" }

\* Reward amounts: the type is number, negative amounts included.
AmountArgs == { -1, 1, 2 }

\* Number of activities added to one log.
MaxAdds == 25

\* The id of the n-th activity added.
ActivityId(n) == "activity_" \o ToString(100 + n)

\* The number of the activity added next: one more than the newest added
\* activity still in the log.
NextActivityNumber(log) ==
  LET present == { n \in 1..MaxAdds : \E i \in 1..Len(log) : log[i] = ActivityId(n) }
  IN IF present = {} THEN 1
     ELSE 1 + CHOOSE n \in present : \A m \in present : m <= n

\* Logs handed to setActivities: one entry, and one entry more than the cap.
ActivityListArgs ==
  { << "activity_901" >>,
    [i \in 1..(ActivityCap + 1) |-> ActivityId(200 + i)] }

\* Partial filters handed to setFilters; a key may be given without a value.
FilterArgs ==
  { [questType |-> Some("daily")],
    [timeRange |-> Some("week")],
    [questType |-> Some("main"), timeRange |-> Some("today")],
    [questType |-> None] }

LimitArgs == { 3, 10 }

MockQuestIdArgs == { "quest_001", "quest_003", "quest_999" }

\* Number of loads issued in the runs that interleave them with local
\* mutations.
MaxLocalLoads == 2

\* Longest activity log the selectors are read on.
MaxShown == 8

\* Limits handed to setActivityLimit where the selectors are read: the
\* parameter is a number, so zero and negative limits are included.
SelectorLimitArgs == { -1, 0, 3, 5, 10 }

\* ------------------------------------------------------------------
\* Specifications
\* ------------------------------------------------------------------
\* The load lifecycle, interleaved with local mutations.
NextLoads ==
  \/ fetchDashboardData
  \/ \E p \in pending : fetchDashboardDataSuccess(p)
  \/ \E p \in pending, thrown \in ThrownArgs : fetchDashboardDataError(p, thrown)
  \/ refreshDashboard
  \/ \E p \in pending, bonus \in BonusArgs : refreshDashboardSuccess(p, bonus)
  \/ \E p \in pending, thrown \in ThrownArgs : refreshDashboardError(p, thrown)
  \/ updateQuestProgress("quest_001", 5)
  \/ toggleShowCompletedQuests
  \/ (state.pendingXPGain + 1 <= MaxPending /\ addPendingXP(1))
  \/ resetStore

SpecLoads == Init /\ [][NextLoads]_vars

\* Quest progress updates on loaded and injected quest lists.
NextQuests ==
  \/ (issued < MaxQuestLoads /\ fetchDashboardData)
  \/ \E p \in pending : fetchDashboardDataSuccess(p)
  \/ \E quests \in QuestListArgs : setActiveQuests(quests)
  \/ \E questId \in QuestIdArgs, progress \in ProgressArgs :
       updateQuestProgress(questId, progress)

SpecQuests == Init /\ [][NextQuests]_vars

\* Quest progress updates on the loaded mock quests only.
NextMockQuests ==
  \/ (issued < MaxQuestLoads /\ fetchDashboardData)
  \/ \E p \in pending : fetchDashboardDataSuccess(p)
  \/ \E questId \in MockQuestIdArgs, progress \in ProgressArgs :
       updateQuestProgress(questId, progress)

SpecMockQuests == Init /\ [][NextMockQuests]_vars

\* Reward accumulation, with a load going on.
NextRewards ==
  \/ \E amount \in AmountArgs :
       /\ Abs(state.pendingXPGain + amount) <= MaxPending
       /\ addPendingXP(amount)
  \/ \E amount \in AmountArgs :
       /\ Abs(state.pendingCoinsGain + amount) <= MaxPending
       /\ addPendingCoins(amount)
  \/ clearPendingRewards
  \/ resetStore
  \/ (issued < MaxQuestLoads /\ fetchDashboardData)
  \/ \E p \in pending : fetchDashboardDataSuccess(p)

SpecRewards == Init /\ [][NextRewards]_vars

\* The activity log: new activities are added in order, on an empty, a
\* loaded or an injected log.
NextActivities ==
  \/ ( /\ NextActivityNumber(state.activities) <= MaxAdds
       /\ addActivity(ActivityId(NextActivityNumber(state.activities))) )
  \/ \E activities \in ActivityListArgs : setActivities(activities)
  \/ (issued < MaxQuestLoads /\ fetchDashboardData)
  \/ \E p \in pending : fetchDashboardDataSuccess(p)
  \/ resetStore

SpecActivities == Init /\ [][NextActivities]_vars

\* Preferences and their persistence, across store constructions.
NextPrefs ==
  \/ \E newFilters \in FilterArgs : setFilters(newFilters)
  \/ toggleShowCompletedQuests
  \/ \E limit \in LimitArgs : setActivityLimit(limit)
  \/ createStore
  \/ resetStore
  \/ (issued < MaxQuestLoads /\ fetchDashboardData)
  \/ \E p \in pending : fetchDashboardDataSuccess(p)
  \/ \E p \in pending, thrown \in ThrownArgs : fetchDashboardDataError(p, thrown)
  \/ (state.pendingXPGain + 1 <= MaxPending /\ addPendingXP(1))

SpecPrefs == Init /\ [][NextPrefs]_vars

\* Reward accumulation and preference changes while loads are in flight.
NextInterleaved ==
  \/ (issued < MaxLocalLoads /\ fetchDashboardData)
  \/ \E p \in pending : fetchDashboardDataSuccess(p)
  \/ \E p \in pending : fetchDashboardDataError(p, [isError |-> TRUE, message |-> "Network error"])
  \/ (issued < MaxLocalLoads /\ refreshDashboard)
  \/ \E p \in pending : refreshDashboardSuccess(p, 0)
  \/ \E p \in pending :
       refreshDashboardError(p, [isError |-> TRUE, message |-> "Network error"])
  \/ \E amount \in {1, 2} :
       /\ state.pendingXPGain + amount <= MaxPending
       /\ addPendingXP(amount)
  \/ (state.pendingCoinsGain + 1 <= MaxPending /\ addPendingCoins(1))
  \/ clearPendingRewards
  \/ resetStore
  \/ toggleShowCompletedQuests
  \/ setFilters([questType |-> Some("daily")])
  \/ setFilters([questType |-> None, timeRange |-> Some("week")])
  \/ setActivityLimit(10)

SpecInterleaved == Init /\ [][NextInterleaved]_vars

\* Loads whose sets may throw: a subscriber or the storage write throws
\* while a call or a continuation runs, before the try block, inside it
\* (caught) or in the catch block.
NextFaults ==
  \/ fetchDashboardData
  \/ refreshDashboard
  \/ \E p \in pending : fetchDashboardDataSuccess(p)
  \/ \E p \in pending, bonus \in BonusArgs : refreshDashboardSuccess(p, bonus)
  \/ \E p \in pending, thrown \in ThrownArgs : fetchDashboardDataError(p, thrown)
  \/ \E p \in pending, thrown \in ThrownArgs : refreshDashboardError(p, thrown)
  \/ \E p \in pending, thrown \in ThrownArgs :
       fetchDashboardDataSuccessCaught(p, thrown)
  \/ \E p \in pending, bonus \in BonusArgs, thrown \in ThrownArgs :
       refreshDashboardSuccessCaught(p, bonus, thrown)
  \/ \E p \in pending, loaded \in BOOLEAN, thrown \in ThrownArgs :
       fetchDashboardDataRejected(p, loaded, thrown)
  \/ \E p \in pending, loaded \in BOOLEAN, bonus \in BonusArgs,
        thrown \in ThrownArgs :
       refreshDashboardRejected(p, loaded, bonus, thrown)

  \/ \E merged \in 1..2, thrown \in ThrownArgs :
       fetchDashboardDataThrows(merged, thrown)
  \/ \E merged \in 1..2, thrown \in ThrownArgs :
       refreshDashboardThrows(merged, thrown)

SpecFaults == Init /\ [][NextFaults]_vars

\* The resolution of load number n: the awaited promise settles and the
\* continuation or the catch block runs.
Resolve(n) ==
  \E p \in pending :
    /\ p.seq = n
    /\ \/ fetchDashboardDataSuccess(p)
       \/ \E thrown \in ThrownArgs : fetchDashboardDataError(p, thrown)
       \/ \E bonus \in BonusArgs : refreshDashboardSuccess(p, bonus)
       \/ \E thrown \in ThrownArgs : refreshDashboardError(p, thrown)

\* Every awaited load settles: a timer that was set fires.
LoadsSettle == \A n \in 1..MaxLoads : WF_vars(Resolve(n))

\* Overlapping loads and nothing else.
NextLifecycle ==
  \/ fetchDashboardData
  \/ \E p \in pending : fetchDashboardDataSuccess(p)
  \/ \E p \in pending, thrown \in ThrownArgs : fetchDashboardDataError(p, thrown)
  \/ refreshDashboard
  \/ \E p \in pending, bonus \in BonusArgs : refreshDashboardSuccess(p, bonus)
  \/ \E p \in pending, thrown \in ThrownArgs : refreshDashboardError(p, thrown)

SpecLifecycle == Init /\ [][NextLifecycle]_vars /\ LoadsSettle

\* The page: it loads when mounted, and reloads when the user presses a
\* button it shows; the store it reads is shared, so other callers may
\* reset it (logout) or report an error meanwhile.
NextPage ==
  \/ mountDashboardPage
  \/ handleRefresh
  \/ resetStore
  \/ setError(Some("Network error"))
  \/ \E p \in pending : fetchDashboardDataSuccess(p)
  \/ \E p \in pending, thrown \in ThrownArgs : fetchDashboardDataError(p, thrown)
  \/ \E p \in pending, bonus \in BonusArgs : refreshDashboardSuccess(p, bonus)
  \/ \E p \in pending, thrown \in ThrownArgs : refreshDashboardError(p, thrown)

SpecPage == Init /\ [][NextPage]_vars /\ LoadsSettle

\* Components reading the store through the selectors, on empty, loaded,
\* injected and locally updated data.
NextSelectors ==
  \/ \E selector \in SelectorNames : useSelector(selector)
  \/ \E limit \in SelectorLimitArgs : setActivityLimit(limit)
  \/ ( /\ Len(state.activities) < MaxShown
       /\ NextActivityNumber(state.activities) <= MaxAdds
       /\ addActivity(ActivityId(NextActivityNumber(state.activities))) )
  \/ \E quests \in QuestListArgs : setActiveQuests(quests)
  \/ updateQuestProgress("quest_001", 5)
  \/ (issued < MaxQuestLoads /\ fetchDashboardData)
  \/ \E p \in pending : fetchDashboardDataSuccess(p)

SpecSelectors == Init /\ [][NextSelectors]_vars

\* ------------------------------------------------------------------
\* Vocabulary of the properties
\* ------------------------------------------------------------------
SnapshotFields ==
  { "user", "activeQuests", "activities", "upcomingClasses", "leaderboard",
    "featuredBadges", "weeklyStats" }

RefreshFields == { "user", "activeQuests", "activities", "upcomingClasses" }

\* The step just taken left every field of the set as it was.
Untouched(fields) == \A k \in fields : state'[k] = state[k]

Clamp(x, lo, hi) == MathMin(MathMax(x, lo), hi)

\* The percentage the data model prescribes for a quest.
ExpectedPercentage(quest) ==
  IF quest.progress.target = 0 THEN Num(0)
  ELSE Clamp(DivTimes100(quest.progress.current, quest.progress.target),
             Num(0), Num(100))

QuestsOf(s) == { s.activeQuests[i] : i \in 1..Len(s.activeQuests) }

\* The quests the last updateQuestProgress call was aimed at.
Targeted == { q \in QuestsOf(state) : q.id = lastCall.arg }

\* ------------------------------------------------------------------
\* C1: when a fetchDashboardData issued before a refreshDashboard resolves
\* right after that refresh has resolved, the four fields the refresh
\* wrote keep the refresh's data (the late fetch result is discarded).
\* ------------------------------------------------------------------
C1_StaleFetchDiscarded ==
  [][ ( /\ lastCall.op = "refreshDashboard/success"
        /\ lastCall'.op = "fetchDashboardData/success"
        /\ lastCall'.seq < lastCall.seq )
      => Untouched(RefreshFields) ]_vars

\* ------------------------------------------------------------------
\* C2: right after any updateQuestProgress call every quest of
\* activeQuests has percentage = clamp(current / target * 100, 0, 100)
\* (0 when the target is 0).
\* ------------------------------------------------------------------
C2_PercentageInvariant ==
  lastCall.op = "updateQuestProgress" =>
    \A q \in QuestsOf(state) : q.progress.percentage = ExpectedPercentage(q)

\* ------------------------------------------------------------------
\* C3: after updateQuestProgress(questId, newCurrent) the targeted quest
\* has 0 <= current <= target, whatever newCurrent was.
\* ------------------------------------------------------------------
C3_CurrentClamped ==
  lastCall.op = "updateQuestProgress" =>
    \A q \in Targeted :
      0 <= q.progress.current /\ q.progress.current <= q.progress.target

\* ------------------------------------------------------------------
\* C4: completion is one-way: an updateQuestProgress call, with any value,
\* leaves every quest that was completed before it completed.
\* ------------------------------------------------------------------
C4_CompletionOneWay ==
  [][ lastCall'.op = "updateQuestProgress" =>
        \A i \in 1..Len(state.activeQuests) :
          state.activeQuests[i].status = "completed" =>
            /\ i <= Len(state'.activeQuests)
            /\ state'.activeQuests[i].id = state.activeQuests[i].id
            /\ state'.activeQuests[i].status = "completed" ]_vars

\* A completed quest was just given a progress below its target (and is
\* still completed).
C4_Witness ==
  /\ lastCall.op = "updateQuestProgress"
  /\ \E q \in Targeted :
       /\ q.status = "completed"
       /\ q.progress.target > 0
       /\ q.progress.current < q.progress.target

\* ------------------------------------------------------------------
\* C5: updateQuestProgress changes a status only from in_progress or
\* available to completed, and only when the new progress reaches the
\* target; locked, claimed and expired quests keep their status.
\* ------------------------------------------------------------------
C5_StatusEdges ==
  [][ lastCall'.op = "updateQuestProgress" =>
        \A i \in 1..Len(state.activeQuests) :
          LET old == state.activeQuests[i]
              new == state'.activeQuests[i]
          IN new.status # old.status =>
               /\ old.status \in {"in_progress", "available"}
               /\ new.status = "completed"
               /\ new.progress.current >= new.progress.target ]_vars

\* ------------------------------------------------------------------
\* C6: when the targeted quest has target 0, updateQuestProgress stores
\* percentage 0 for every newCurrent.
\* ------------------------------------------------------------------
C6_ZeroTargetPercentage ==
  lastCall.op = "updateQuestProgress" =>
    \A q \in Targeted :
      q.progress.target = 0 => q.progress.percentage = Num(0)

\* ------------------------------------------------------------------
\* C7: when the load of fetchDashboardData fails with message m, the call
\* ends with isLoading = false and error = m and with all seven snapshot
\* fields as they were before the failure.
\* ------------------------------------------------------------------
C7_FetchFailureKeepsSnapshot ==
  [][ ( lastCall'.op = "fetchDashboardData/error" /\ lastCall'.arg.isError )
      => /\ state'.isLoading = FALSE
         /\ state'.error = Some(lastCall'.arg.message)
         /\ Untouched(SnapshotFields) ]_vars

\* A fetch just failed with "Network error" while a snapshot was loaded.
C7_Witness ==
  /\ lastCall.op = "fetchDashboardData/error"
  /\ lastCall.arg.isError
  /\ state.error = Some("Network error")
  /\ state.user # None
  /\ state.weeklyStats # None
  /\ ~state.isLoading

\* ------------------------------------------------------------------
\* C8: fetchDashboardData sets isLoading = true and error = null when
\* called; its success is one transition that writes all seven snapshot
\* fields together with isLoading = false.
\* ------------------------------------------------------------------
C8_FetchAtomicReplace ==
  [][ /\ lastCall'.op = "fetchDashboardData" =>
           state'.isLoading = TRUE /\ state'.error = None
      /\ lastCall'.op = "fetchDashboardData/success" =>
           /\ state'.user = Some(mockUser)
           /\ state'.activeQuests = mockActiveQuests
           /\ state'.activities = mockActivities
           /\ state'.upcomingClasses = mockUpcomingClasses
           /\ state'.leaderboard = mockLeaderboard
           /\ state'.featuredBadges = mockFeaturedBadges
           /\ state'.weeklyStats = Some(mockWeeklyStats)
           /\ state'.isLoading = FALSE ]_vars

\* A fetch just succeeded: the full snapshot is in place, isLoading is off.
C8_Witness ==
  /\ lastCall.op = "fetchDashboardData/success"
  /\ state.user = Some(mockUser)
  /\ state.weeklyStats = Some(mockWeeklyStats)
  /\ ~state.isLoading

\* ------------------------------------------------------------------
\* C9: a successful refreshDashboard replaces exactly user, activeQuests,
\* activities and upcomingClasses and sets isRefreshing = false; every
\* other field (leaderboard, featuredBadges, weeklyStats, isLoading, error,
\* preferences, pending reward counters) is left unchanged.
\* ------------------------------------------------------------------
C9_RefreshFrame ==
  [][ lastCall'.op = "refreshDashboard/success" =>
        /\ \E bonus \in 0..(XPBonusRange - 1) :
             state'.user =
               Some([mockUser EXCEPT !.stats.currentXP = @ + bonus])
        /\ state'.activeQuests = mockActiveQuests
        /\ state'.activities = mockActivities
        /\ state'.upcomingClasses = mockUpcomingClasses
        /\ state'.isRefreshing = FALSE
        /\ Untouched(DOMAIN state \ (RefreshFields \cup {"isRefreshing"})) ]_vars

\* A refresh just succeeded in a store that never fetched (no leaderboard),
\* while a fetch is loading and preferences and pending XP are not initial.
C9_Witness ==
  /\ lastCall.op = "refreshDashboard/success"
  /\ state.user # None
  /\ state.leaderboard = <<>>
  /\ state.isLoading
  /\ state.showCompletedQuests
  /\ state.pendingXPGain > 0

\* ------------------------------------------------------------------
\* C10: when the load of refreshDashboard fails, the call ends with error
\* set to the failure message and isRefreshing = false and with all seven snapshot
\* fields as they were before the failure.
\* ------------------------------------------------------------------
C10_RefreshFailureKeepsSnapshot ==
  [][ ( lastCall'.op = "refreshDashboard/error" /\ lastCall'.arg.isError )
      => /\ state'.isRefreshing = FALSE
         /\ state'.error = Some(lastCall'.arg.message)
         /\ Untouched(SnapshotFields) ]_vars

\* A refresh just failed while a full snapshot with updated quest progress
\* was on display.
C10_Witness ==
  /\ lastCall.op = "refreshDashboard/error"
  /\ lastCall.arg.isError
  /\ state.error = Some("Network error")
  /\ ~state.isRefreshing
  /\ state.user # None
  /\ state.activeQuests # <<>>
  /\ state.activeQuests # mockActiveQuests

C12_RewardsAdditive ==
  [][ /\ lastCall'.op = "addPendingXP" =>
           /\ state'.pendingXPGain = state.pendingXPGain + lastCall'.arg
           /\ state'.pendingCoinsGain = state.pendingCoinsGain
      /\ lastCall'.op = "addPendingCoins" =>
           /\ state'.pendingCoinsGain = state.pendingCoinsGain + lastCall'.arg
           /\ state'.pendingXPGain = state.pendingXPGain
      /\ lastCall'.op = "clearPendingRewards" =>
           /\ state'.pendingXPGain = 0
           /\ state'.pendingCoinsGain = 0 ]_vars

\* A second addPendingXP(1) just brought pendingXPGain to 2 while coins are
\* pending as well.
C12_Witness ==
  /\ lastCall.op = "addPendingXP"
  /\ lastCall.arg = 1
  /\ state.pendingXPGain = 2
  /\ state.pendingCoinsGain = 1

\* ------------------------------------------------------------------
\* C13 as claimed: both pending counters are >= 0 in every reachable state,
\* whatever amounts were passed.
\* ------------------------------------------------------------------
C13_NonNegative ==
  state.pendingXPGain >= 0 /\ state.pendingCoinsGain >= 0

\* ------------------------------------------------------------------
\* C13 as amended: the counters are 0 after clearPendingRewards and
\* resetStore, and from non-negative counters every operation other than
\* an add with a negative amount leaves both counters non-negative.
\* ------------------------------------------------------------------
C13_NonNegativeKept ==
  [][ /\ lastCall'.op \in {"clearPendingRewards", "resetStore"} =>
           state'.pendingXPGain = 0 /\ state'.pendingCoinsGain = 0
      /\ ( /\ state.pendingXPGain >= 0
           /\ state.pendingCoinsGain >= 0
           /\ lastCall'.op \in {"addPendingXP", "addPendingCoins"} =>
                lastCall'.arg >= 0 )
         => state'.pendingXPGain >= 0 /\ state'.pendingCoinsGain >= 0 ]_vars

\* Coins were just added with a positive amount on non-negative counters.
C13_Witness ==
  /\ lastCall.op = "addPendingCoins"
  /\ lastCall.arg > 0
  /\ state.pendingCoinsGain = 2
  /\ state.pendingXPGain > 0

\* ------------------------------------------------------------------
\* C14: addActivity(a) on a log L gives the first 20 entries of [a]
\* followed by L: a at index 0, the retained entries in their order, only
\* the oldest dropped, length min(|L| + 1, 20).
\* ------------------------------------------------------------------
C14_AddActivityPrepends ==
  [][ lastCall'.op = "addActivity" =>
        LET old == state.activities
            new == state'.activities
        IN /\ Len(new) = (IF Len(old) + 1 < 20 THEN Len(old) + 1 ELSE 20)
           /\ new[1] = lastCall'.arg
           /\ \A i \in 2..Len(new) : new[i] = old[i - 1] ]_vars

\* After 25 addActivity calls on an empty log: the 20 most recently added
\* activities, newest first.
C14_Witness ==
  /\ lastCall.op = "addActivity"
  /\ state.activities = [i \in 1..20 |-> ActivityId(26 - i)]

\* ------------------------------------------------------------------
\* C15: in every reachable state the activity log has at most 20 entries.
\* ------------------------------------------------------------------
C15_ActivitiesBounded == Len(state.activities) <= 20

\* ------------------------------------------------------------------
\* C16: updateQuestProgress(questId, v) changes only the quests whose id is
\* questId: every other quest is left identical, the length and order of
\* activeQuests are kept, and no other state field changes; when no quest
\* has that id, no quest changes.
\* ------------------------------------------------------------------
C16_UpdateFrame ==
  [][ lastCall'.op = "updateQuestProgress" =>
        LET old == state.activeQuests
            new == state'.activeQuests
        IN /\ Len(new) = Len(old)
           /\ \A i \in 1..Len(old) :
                /\ new[i].id = old[i].id
                /\ old[i].id # lastCall'.arg => new[i] = old[i]
           /\ Untouched(DOMAIN state \ {"activeQuests"}) ]_vars

\* quest_001 of the loaded mock quests was just updated; the four other
\* quests are the loaded ones.
C16_Witness ==
  /\ lastCall.op = "updateQuestProgress"
  /\ lastCall.arg = "quest_001"
  /\ Len(state.activeQuests) = 5
  /\ state.activeQuests[1] # mockActiveQuests[1]
  /\ \A i \in 2..5 : state.activeQuests[i] = mockActiveQuests[i]
  /\ state.user # None

PreferenceFields == { "showCompletedQuests", "activityLimit", "filters" }

\* The item holds exactly the preferences of state s.
HoldsPreferencesOf(item, s) ==
  /\ item # None
  /\ item[1].showCompletedQuests = s.showCompletedQuests
  /\ item[1].activityLimit = s.activityLimit
  /\ \A k \in FilterKeys :
       IF s.filters[k] = None THEN k \notin DOMAIN item[1].filters
       ELSE k \in DOMAIN item[1].filters /\ s.filters[k] = Some(item[1].filters[k])

\* ------------------------------------------------------------------
\* C17: in every reachable state the persisted value, once one was
\* written, has exactly the fields showCompletedQuests, activityLimit and
\* filters: no snapshot field, lifecycle flag or pending counter is
\* written to the store.
\* ------------------------------------------------------------------
C17_OnlyPreferencesPersisted ==
  storage # None =>
    /\ DOMAIN storage[1] = PreferenceFields
    /\ DOMAIN storage[1].filters \subseteq FilterKeys

\* The item was written while a snapshot was loaded and XP was pending.
C17_Witness ==
  /\ state.user # None
  /\ state.activeQuests # <<>>
  /\ state.pendingXPGain > 0
  /\ state.showCompletedQuests
  /\ lastCall.op = "addPendingXP"
  /\ storage # None

\* ------------------------------------------------------------------
\* C18: when setFilters, toggleShowCompletedQuests or setActivityLimit has
\* returned, the persisted value equals the three preferences of the
\* current in-memory state.
\* ------------------------------------------------------------------
C18_PreferencesSaved ==
  lastCall.op \in {"setFilters", "toggleShowCompletedQuests", "setActivityLimit"}
    => HoldsPreferencesOf(storage, state)

\* A filter was just set on preferences that were already changed.
C18_Witness ==
  /\ lastCall.op = "setFilters"
  /\ state.filters.questType = Some("daily")
  /\ state.showCompletedQuests
  /\ state.activityLimit = 10
  /\ HoldsPreferencesOf(storage, state)

\* ------------------------------------------------------------------
\* C19: when preferences were saved, a store constructed over the
\* persistence store starts with the three preferences that were saved
\* (those of the store before it) and with every other field at its
\* initial value.
\* ------------------------------------------------------------------
C19_PersistenceRoundTrip ==
  [][ ( lastCall'.op = "create" /\ storage # None ) =>
        /\ HoldsPreferencesOf(storage, state')
        /\ \A k \in PreferenceFields : state'[k] = state[k]
        /\ \A k \in DOMAIN state \ PreferenceFields :
             state'[k] = initialState[k] ]_vars

\* A store was just constructed over saved, non-initial preferences, after
\* the previous one had issued a load.
C19_Witness ==
  /\ lastCall.op = "create"
  /\ storage # None
  /\ issued > 0
  /\ state.filters = [questType |-> Some("daily"), timeRange |-> Some("week")]
  /\ state.showCompletedQuests
  /\ state.activityLimit = 10
  /\ state.user = None

\* ------------------------------------------------------------------
\* C20: resetStore yields the initial value of every field: null / empty
\* snapshot, flags false, error null, filters {}, showCompletedQuests
\* false, activityLimit 5, both pending counters 0.
\* ------------------------------------------------------------------
C20_ResetRestoresInitial ==
  [][ lastCall'.op = "resetStore" =>
        /\ state'.user = None
        /\ state'.activeQuests = <<>>
        /\ state'.activities = <<>>
        /\ state'.upcomingClasses = <<>>
        /\ state'.leaderboard = <<>>
        /\ state'.featuredBadges = <<>>
        /\ state'.weeklyStats = None
        /\ state'.isLoading = FALSE
        /\ state'.isRefreshing = FALSE
        /\ state'.error = None
        /\ \A k \in FilterKeys : state'.filters[k] = None
        /\ state'.showCompletedQuests = FALSE
        /\ state'.activityLimit = 5
        /\ state'.pendingXPGain = 0
        /\ state'.pendingCoinsGain = 0
        /\ DOMAIN state' = DOMAIN initialState ]_vars

\* The store was just reset while a load was still in flight.
C20_Witness ==
  /\ lastCall.op = "resetStore"
  /\ pending # {}
  /\ state = initialState

\* The indices of xs whose element passes the test, as a set.
Passing(xs, Test(_)) == { i \in 1..Len(xs) : Test(xs[i]) }

\* r holds exactly the elements of xs that pass the test, in the order of xs.
IsFilterOf(r, xs, Test(_)) ==
  LET idx == Passing(xs, Test)
  IN /\ Len(r) = Cardinality(idx)
     /\ \A i \in idx : r[Cardinality({ j \in idx : j <= i })] = xs[i]

Min(a, b) == IF a < b THEN a ELSE b

\* ------------------------------------------------------------------
\* C21: whatever the activity log and whatever limit setActivityLimit
\* stored, selectLimitedActivities returns exactly the first
\* min(activityLimit, |activities|) entries of activities, in stored order
\* (no entry at all when that number is not positive).
\* ------------------------------------------------------------------
C21_LimitedActivities ==
  lastCall.op = "selectLimitedActivities" =>
    LET m == Min(state.activityLimit, Len(state.activities))
        n == IF m < 0 THEN 0 ELSE m
    IN /\ Len(lastCall.arg) = n
       /\ \A i \in 1..n : lastCall.arg[i] = state.activities[i]

\* ------------------------------------------------------------------
\* C22: selectInProgressQuests, selectDailyQuests and selectExpiringQuests
\* return exactly the quests of activeQuests with status in_progress, type
\* daily and isExpiringSoon true, in activeQuests order, and reading a
\* selector changes no field of the store state (nor what is persisted).
\* ------------------------------------------------------------------
C22_SelectorsPure ==
  [][ LET InProgress(quest) == quest.status = "in_progress"
          Daily(quest) == quest.type = "daily"
          Expiring(quest) == quest.isExpiringSoon = Some(TRUE)
      IN /\ lastCall'.op = "selectInProgressQuests" =>
              IsFilterOf(lastCall'.arg, state.activeQuests, InProgress)
         /\ lastCall'.op = "selectDailyQuests" =>
              IsFilterOf(lastCall'.arg, state.activeQuests, Daily)
         /\ lastCall'.op = "selectExpiringQuests" =>
              IsFilterOf(lastCall'.arg, state.activeQuests, Expiring)
         /\ lastCall'.op \in SelectorNames =>
              state' = state /\ storage' = storage /\ pending' = pending ]_vars

\* selectInProgressQuests was just read on the loaded quests after
\* quest_001 was completed: it returned the four other quests.
C22_Witness ==
  /\ lastCall.op = "selectInProgressQuests"
  /\ Len(state.activeQuests) = 5
  /\ state.activeQuests[1].status = "completed"
  /\ lastCall.arg = SubSeq(mockActiveQuests, 2, 5)

LoadSteps ==
  { "fetchDashboardData", "fetchDashboardData/success",
    "fetchDashboardData/error", "refreshDashboard",
    "refreshDashboard/success", "refreshDashboard/error" }

\* ------------------------------------------------------------------
\* C23: however loads and their resolutions interleave with the local
\* mutations, each pending counter is the sum of the amounts added since
\* the last clearPendingRewards or resetStore, and the preferences are the
\* result of the preference mutations in call order: a step changes a
\* counter or a preference only if it is that mutation, by exactly its
\* effect, and no step of a load changes any of them.
\* ------------------------------------------------------------------
C23_LocalMutationsKept ==
  [][ LET op == lastCall'.op
          arg == lastCall'.arg
          cleared == op \in {"clearPendingRewards", "resetStore"}
      IN /\ state'.pendingXPGain =
              IF cleared THEN 0
              ELSE IF op = "addPendingXP" THEN state.pendingXPGain + arg
              ELSE state.pendingXPGain
         /\ state'.pendingCoinsGain =
              IF cleared THEN 0
              ELSE IF op = "addPendingCoins" THEN state.pendingCoinsGain + arg
              ELSE state.pendingCoinsGain
         /\ state'.showCompletedQuests =
              IF op = "resetStore" THEN FALSE
              ELSE IF op = "toggleShowCompletedQuests"
                   THEN ~state.showCompletedQuests
              ELSE state.showCompletedQuests
         /\ state'.activityLimit =
              IF op = "resetStore" THEN 5
              ELSE IF op = "setActivityLimit" THEN arg
              ELSE state.activityLimit
         /\ \A k \in FilterKeys :
              state'.filters[k] =
                IF op = "resetStore" THEN None
                ELSE IF op = "setFilters" /\ k \in DOMAIN arg THEN arg[k]
                ELSE state.filters[k]
         /\ op \in LoadSteps =>
              Untouched(PreferenceFields \cup {"pendingXPGain", "pendingCoinsGain"})
    ]_vars

\* A refresh just failed while a fetch is still in flight; the rewards
\* added and the preferences changed meanwhile are all in place.
C23_Witness ==
  /\ lastCall.op = "refreshDashboard/error"
  /\ \E p \in pending : p.kind = "fetch"
  /\ state.pendingXPGain = 2
  /\ state.pendingCoinsGain = 1
  /\ state.showCompletedQuests
  /\ state.activityLimit = 10
  /\ state.filters = [questType |-> None, timeRange |-> Some("week")]

\* ------------------------------------------------------------------
\* C24: when the load of a refreshDashboard or fetchDashboardData fails
\* while a user is loaded, DashboardPage still renders the dashboard and
\* the snapshot is the one from before the failure; the error screen is
\* rendered only when error is not null and user is null, the loading
\* skeleton only when isLoading holds and user is null.
\* ------------------------------------------------------------------
C24_StaleDataPreferred ==
  [][ /\ ( /\ lastCall'.op \in {"refreshDashboard/error", "fetchDashboardData/error"}
           /\ state.user # None )
         => /\ DashboardPage(state') = "dashboard"
            /\ Untouched(SnapshotFields)
      /\ DashboardPage(state') = "error" =>
           state'.error # None /\ state'.user = None
      /\ DashboardPage(state') = "skeleton" =>
           state'.isLoading /\ state'.user = None ]_vars

\* A refresh just failed on a loaded dashboard: the error is set and the
\* page shows the dashboard with the loaded data.
C24_Witness ==
  /\ lastCall.op = "refreshDashboard/error"
  /\ state.error = Some("Network error")
  /\ state.user = Some(mockUser)
  /\ state.weeklyStats = Some(mockWeeklyStats)
  /\ DashboardPage(state) = "dashboard"

\* ------------------------------------------------------------------
\* C25: in every reachable state isLoading is true while some
\* fetchDashboardData call is unresolved, and isRefreshing is true while
\* some refreshDashboard call is unresolved.
\* ------------------------------------------------------------------
C25_FlagsReflectOutstanding ==
  /\ (\E p \in pending : p.kind = "fetch") => state.isLoading
  /\ (\E p \in pending : p.kind = "refresh") => state.isRefreshing

\* ------------------------------------------------------------------
\* C26: once resetStore has returned, the store stays equal to the
\* initial state when a load issued before the reset resolves.
\* ------------------------------------------------------------------
C26_ResetNotUndone ==
  [][ ( /\ lastCall.op = "resetStore"
        /\ state = initialState
        /\ lastCall'.op \in { "fetchDashboardData/success",
                              "fetchDashboardData/error",
                              "refreshDashboard/success",
                              "refreshDashboard/error" } )
      => state' = initialState ]_vars

\* All seven snapshot fields of s are loaded.
SnapshotLoaded(s) ==
  /\ s.user # None
  /\ s.activeQuests # <<>>
  /\ s.activities # <<>>
  /\ s.upcomingClasses # <<>>
  /\ s.leaderboard # <<>>
  /\ s.featuredBadges # <<>>
  /\ s.weeklyStats # None

\* ------------------------------------------------------------------
\* C27: after 'Try Again' was pressed on the error screen (user = null,
\* error set) with no other load in flight, the page eventually is in a
\* state with error = null and all seven snapshot fields loaded, unless
\* that retry fails.
\* ------------------------------------------------------------------
C27_RetryRecovers ==
  \A n \in 1..MaxLoads :
    ( /\ lastCall = Call("refreshDashboard", n, "error")
      /\ state.user = None
      /\ \A p \in pending : p.seq = n )
    ~> ( \/ state.error = None /\ SnapshotLoaded(state)
         \/ lastCall.op = "refreshDashboard/error" /\ lastCall.seq = n )

\* ------------------------------------------------------------------
\* C28: in every state in which no load is outstanding and the most
\* recently issued load has just resolved successfully, error is null.
\* ------------------------------------------------------------------
C28_ErrorNotStale ==
  ( /\ pending = {}
    /\ lastCall.op \in {"fetchDashboardData/success", "refreshDashboard/success"}
    /\ lastCall.seq = issued )
  => state.error = None

\* ------------------------------------------------------------------
\* C29: every fetchDashboardData call is eventually followed by its
\* resolution, a state with isLoading = false in which the snapshot was
\* replaced or error is set; likewise every refreshDashboard call, with
\* isRefreshing = false; and no flag is true when no load is outstanding.
\* ------------------------------------------------------------------
C29_LoadsFinish ==
  /\ [](pending = {} => ~state.isLoading /\ ~state.isRefreshing)
  /\ \A n \in 1..MaxLoads :
       /\ ([kind |-> "fetch", seq |-> n] \in pending)
            ~> ( /\ lastCall.seq = n
                 /\ ~state.isLoading
                 /\ \/ /\ lastCall.op = "fetchDashboardData/success"
                       /\ \A k \in DOMAIN FetchSuccessPatch :
                            state[k] = FetchSuccessPatch[k]
                    \/ /\ lastCall.op = "fetchDashboardData/error"
                       /\ state.error # None )
       /\ ([kind |-> "refresh", seq |-> n] \in pending)
            ~> ( /\ lastCall.seq = n
                 /\ ~state.isRefreshing
                 /\ \/ /\ lastCall.op = "refreshDashboard/success"
                       /\ state.activeQuests = mockActiveQuests
                       /\ state.user # None
                    \/ /\ lastCall.op = "refreshDashboard/error"
                       /\ state.error # None )

\* The last of three overlapping loads just failed: nothing is outstanding
\* and both flags are off.
C29_Witness ==
  /\ issued = MaxLoads
  /\ pending = {}
  /\ lastCall.op = "fetchDashboardData/error"
  /\ state.error # None
  /\ ~state.isLoading
  /\ ~state.isRefreshing

\* ------------------------------------------------------------------
\* C30: setFilters(partial) merges: every key of partial takes the value
\* given, every other filter key keeps its value, no other field changes,
\* and a second setFilters with the same partial changes nothing.
\* ------------------------------------------------------------------
C30_SetFiltersMerges ==
  [][ lastCall'.op = "setFilters" =>
        /\ \A k \in FilterKeys :
             state'.filters[k] =
               IF k \in DOMAIN lastCall'.arg THEN lastCall'.arg[k]
               ELSE state.filters[k]
        /\ Untouched(DOMAIN state \ {"filters"})
        /\ ( lastCall.op = "setFilters" /\ lastCall.arg = lastCall'.arg )
             => state' = state ]_vars

\* setFilters({ timeRange }) was just applied on filters that had a quest
\* type, with the other preferences changed and a snapshot loaded.
C30_Witness ==
  /\ lastCall.op = "setFilters"
  /\ lastCall.arg = [timeRange |-> Some("week")]
  /\ state.filters = [questType |-> Some("daily"), timeRange |-> Some("week")]
  /\ state.showCompletedQuests
  /\ state.activityLimit = 10
  /\ state.user # None

====
